---- MODULE Spec2Model ----
(***************************************************************************)
(* A model of dc.py: the date normaliser (normalize_date), the per-keyword *)
(* page crawler (get_counts_in_range) and the aggregator (fetch_counts).   *)
(*                                                                         *)
(* Text is a sequence of one-character strings.  A Hangul syllable is      *)
(* written by its code point ("U+C624"), one element per character.        *)
(* A date (datetime.date) is a triple <<year, month, day>>; None is <<>>.  *)
(***************************************************************************)
EXTENDS Integers, Sequences, FiniteSets, TLC

(***************************************************************************)
(* Bounds of the model.                                                    *)
(***************************************************************************)
\* the largest max_page a call is made with
MaxPage == 2
\* the largest number of tr.ub-content rows on one page
MaxRows == 2
\* the number of GET attempts for one page that the site has an answer for
ScriptLen == 4

(***************************************************************************)
(* Characters and str methods.                                             *)
(***************************************************************************)
Digits == {"0", "1", "2", "3", "4", "5", "6", "7", "8", "9"}

DigitVal(c) ==
  CASE c = "0" -> 0 [] c = "1" -> 1 [] c = "2" -> 2 [] c = "3" -> 3
    [] c = "4" -> 4 [] c = "5" -> 5 [] c = "6" -> 6 [] c = "7" -> 7
    [] c = "8" -> 8 [] c = "9" -> 9

DigitChar(n) == <<"0", "1", "2", "3", "4", "5", "6", "7", "8", "9">>[n + 1]

\* ord(c) of the characters that occur in sort keys
CodePoint(c) ==
  CASE c = "-" -> 45
    [] c \in Digits -> 48 + DigitVal(c)
    [] c = "X" -> 88
    [] c = "Y" -> 89

\* the characters str.strip() removes (the ASCII members of str.isspace)
Whitespace == {" ", "\t", "\n", "\r", "\f"}

RECURSIVE lstrip(_)
lstrip(s) ==
  IF s # <<>> /\ Head(s) \in Whitespace THEN lstrip(Tail(s)) ELSE s

RECURSIVE rstrip(_)
rstrip(s) ==
  IF s # <<>> /\ s[Len(s)] \in Whitespace
  THEN rstrip(SubSeq(s, 1, Len(s) - 1))
  ELSE s

\* text.strip()
strip(s) == rstrip(lstrip(s))

\* c in text
Contains(s, c) == \E i \in 1..Len(s) : s[i] = c

\* text.split(" ")[0]: the part before the first space
RECURSIVE SplitFirst(_)
SplitFirst(s) ==
  IF s = <<>> \/ Head(s) = " " THEN <<>> ELSE <<Head(s)>> \o SplitFirst(Tail(s))

(***************************************************************************)
(* datetime.date                                                           *)
(***************************************************************************)
None == <<>>

IsLeap(y) == (y % 4 = 0) /\ ((y % 100 # 0) \/ (y % 400 = 0))

DaysInMonth(y, m) ==
  IF m = 2 THEN (IF IsLeap(y) THEN 29 ELSE 28)
  ELSE IF m \in {4, 6, 9, 11} THEN 30 ELSE 31

\* the triples datetime(y, m, d) accepts; any other raises ValueError
ValidDate(y, m, d) ==
  /\ y \in 1..9999
  /\ m \in 1..12
  /\ d \in 1..DaysInMonth(y, m)

\* a < b on dates
DateLT(a, b) ==
  \/ a[1] < b[1]
  \/ a[1] = b[1] /\ a[2] < b[2]
  \/ a[1] = b[1] /\ a[2] = b[2] /\ a[3] < b[3]

DateLE(a, b) == a = b \/ DateLT(a, b)

\* the day after t: what dt.date.today() returns once midnight has passed
PlusOneDay(t) ==
  IF t[3] < DaysInMonth(t[1], t[2]) THEN <<t[1], t[2], t[3] + 1>>
  ELSE IF t[2] < 12 THEN <<t[1], t[2] + 1, 1>>
  ELSE <<t[1] + 1, 1, 1>>

\* today - dt.timedelta(days=1)
MinusOneDay(t) ==
  IF t[3] > 1 THEN <<t[1], t[2], t[3] - 1>>
  ELSE IF t[2] > 1 THEN <<t[1], t[2] - 1, DaysInMonth(t[1], t[2] - 1)>>
  ELSE <<t[1] - 1, 12, 31>>

\* date.isoformat(): "YYYY-MM-DD"
isoformat(t) ==
  << DigitChar(t[1] \div 1000), DigitChar((t[1] \div 100) % 10),
     DigitChar((t[1] \div 10) % 10), DigitChar(t[1] % 10), "-",
     DigitChar(t[2] \div 10), DigitChar(t[2] % 10), "-",
     DigitChar(t[3] \div 10), DigitChar(t[3] % 10) >>

\* min(parsed_dates) of a non-empty list
RECURSIVE MinDate(_)
MinDate(ds) ==
  IF Len(ds) = 1 THEN ds[1]
  ELSE LET m == MinDate(Tail(ds))
       IN  IF DateLT(m, ds[1]) THEN m ELSE ds[1]

(***************************************************************************)
(* datetime.strptime for the directives %Y %y %m %d and literal text.      *)
(* A format is a sequence of directives and literal characters.  strptime  *)
(* turns it into a regular expression, takes the first match the           *)
(* backtracking matcher finds at the start of the text, and raises         *)
(* ValueError when text remains after it or the fields are no date.        *)
(***************************************************************************)
\* the character at position i, "" past the end
CharAt(s, i) == IF i <= Len(s) THEN s[i] ELSE ""

\* a group of two digits and its value
TwoDigits(c1, c2) == <<2, 10 * DigitVal(c1) + DigitVal(c2)>>

\* a group of one digit and its value
OneDigit(c) == <<1, DigitVal(c)>>

\* (?P<Y>\d\d\d\d)
GroupY(c1, c2, c3, c4) ==
  IF {c1, c2, c3, c4} \subseteq Digits
  THEN << <<4, 1000 * DigitVal(c1) + 100 * DigitVal(c2)
               + 10 * DigitVal(c3) + DigitVal(c4)>> >>
  ELSE <<>>

\* (?P<y>\d\d)
Groupy(c1, c2) ==
  IF {c1, c2} \subseteq Digits THEN <<TwoDigits(c1, c2)>> ELSE <<>>

\* (?P<m>1[0-2]|0[1-9]|[1-9])
Groupm(c1, c2) ==
  (IF c1 = "1" /\ c2 \in {"0", "1", "2"} THEN <<TwoDigits(c1, c2)>> ELSE <<>>)
  \o (IF c1 = "0" /\ c2 \in Digits \ {"0"} THEN <<TwoDigits(c1, c2)>> ELSE <<>>)
  \o (IF c1 \in Digits \ {"0"} THEN <<OneDigit(c1)>> ELSE <<>>)

\* (?P<d>3[0-1]|[1-2]\d|0[1-9]|[1-9]| [1-9])
Groupd(c1, c2) ==
  (IF c1 = "3" /\ c2 \in {"0", "1"} THEN <<TwoDigits(c1, c2)>> ELSE <<>>)
  \o (IF c1 \in {"1", "2"} /\ c2 \in Digits THEN <<TwoDigits(c1, c2)>> ELSE <<>>)
  \o (IF c1 = "0" /\ c2 \in Digits \ {"0"} THEN <<TwoDigits(c1, c2)>> ELSE <<>>)
  \o (IF c1 \in Digits \ {"0"} THEN <<OneDigit(c1)>> ELSE <<>>)
  \o (IF c1 = " " /\ c2 \in Digits \ {"0"} THEN << <<2, DigitVal(c2)>> >> ELSE <<>>)

\* the ways a directive's group matches at position i, in the order the
\* alternatives of its regular expression are tried: <<length, value>>
Alternatives(dir, s, i) ==
  CASE dir = "%Y" ->
         GroupY(CharAt(s, i), CharAt(s, i + 1), CharAt(s, i + 2), CharAt(s, i + 3))
    [] dir = "%y" -> Groupy(CharAt(s, i), CharAt(s, i + 1))
    [] dir = "%m" -> Groupm(CharAt(s, i), CharAt(s, i + 1))
    [] dir = "%d" -> Groupd(CharAt(s, i), CharAt(s, i + 1))

Directives == {"%Y", "%y", "%m", "%d"}

NoMatch == [ok |-> FALSE, end |-> 0, found |-> <<>>]

\* re.match of the format's regular expression from item k of the format at
\* position i of the text; found holds the groups matched so far.  The
\* alternatives of a group are tried in order until the rest matches.
RECURSIVE ReMatch(_, _, _, _, _)
RECURSIVE ReMatchAlt(_, _, _, _, _, _)
RECURSIVE Backtrack(_, _, _, _, _, _, _)
ReMatch(s, fmt, k, i, found) ==
  IF k > Len(fmt) THEN [ok |-> TRUE, end |-> i, found |-> found]
  ELSE IF fmt[k] \in Directives
       THEN ReMatchAlt(s, fmt, k, i, found, Alternatives(fmt[k], s, i))
       ELSE IF CharAt(s, i) = fmt[k]
            THEN ReMatch(s, fmt, k + 1, i + 1, found)
            ELSE NoMatch

ReMatchAlt(s, fmt, k, i, found, alts) ==
  IF alts = <<>> THEN NoMatch
  ELSE Backtrack(ReMatch(s, fmt, k + 1, i + Head(alts)[1],
                         [found EXCEPT ![fmt[k]] = Head(alts)[2]]),
                 s, fmt, k, i, found, Tail(alts))

Backtrack(r, s, fmt, k, i, found, alts) ==
  IF r.ok THEN r ELSE ReMatchAlt(s, fmt, k, i, found, alts)

NoGroups == [dir \in Directives |-> -1]

\* the year of the groups found: %Y, else %y with its century, else 1900
YearOf(g) ==
  IF g["%Y"] # -1 THEN g["%Y"]
  ELSE IF g["%y"] = -1 THEN 1900
  ELSE IF g["%y"] <= 68 THEN 2000 + g["%y"] ELSE 1900 + g["%y"]

\* datetime(y, m, d).date(); ValueError is None
MakeDate(y, m, d) == IF ValidDate(y, m, d) THEN <<y, m, d>> ELSE None

\* the result of a match r of the text s; ValueError is None
FromMatch(s, r) ==
  IF ~r.ok THEN None
  ELSE IF r.end # Len(s) + 1 THEN None
  ELSE MakeDate(YearOf(r.found), r.found["%m"], r.found["%d"])

\* dt.datetime.strptime(text, fmt), as the date of the result
strptime(s, fmt) == FromMatch(s, ReMatch(s, fmt, 1, 1, NoGroups))

(***************************************************************************)
(* normalize_date                                                          *)
(***************************************************************************)
FmtYmdDot == <<"%Y", ".", "%m", ".", "%d">>
FmtShortYmdDot == <<"%y", ".", "%m", ".", "%d">>
FmtMdDot == <<"%m", ".", "%d">>
FmtMdSlash == <<"%m", "/", "%d">>
FmtYmdDash == <<"%Y", "-", "%m", "-", "%d">>

\* the formats in the order the loop tries them
Formats == <<FmtYmdDot, FmtShortYmdDot, FmtMdDot, FmtMdSlash, FmtYmdDash>>

TodayToken == <<"U+C624", "U+B298">>
YesterdayToken == <<"U+C5B4", "U+C81C">>

\* the for loop over the formats, from format number k on; a ValueError of
\* strptime or of parsed.replace(year=today.year) goes on to the next format
RECURSIVE TryFormats(_, _, _)
RECURSIVE TryParsed(_, _, _, _)
TryFormats(text, tday, k) ==
  IF k > Len(Formats) THEN None
  ELSE TryParsed(strptime(text, Formats[k]), text, tday, k)

TryParsed(parsed, text, tday, k) ==
  IF parsed = None THEN TryFormats(text, tday, k + 1)
  ELSE IF Formats[k] \notin {FmtMdDot, FmtMdSlash} THEN parsed
  ELSE IF ValidDate(tday[1], parsed[2], parsed[3])
       THEN <<tday[1], parsed[2], parsed[3]>>
       ELSE TryFormats(text, tday, k + 1)

\* a variant of Trimmed: the text is not cut at its first space
TrimmedWhole(stripped) == stripped

\* text.strip(), then the part before the first space if there is a space
Trimmed(stripped) ==
  IF Contains(stripped, " ") THEN SplitFirst(stripped) ELSE stripped

\* the tests of normalize_date on the trimmed text
Resolve(text, tday) ==
  IF text = TodayToken THEN tday
  ELSE IF text = YesterdayToken THEN MinusOneDay(tday)
  ELSE IF Contains(text, ":") THEN tday
  ELSE TryFormats(text, tday, 1)

normalize_date(raw, tday) == Resolve(Trimmed(strip(raw)), tday)

(***************************************************************************)
(* str comparison and DataFrame.sort_values                                *)
(***************************************************************************)
\* a < b on str: lexicographic by code point
RECURSIVE StrLT(_, _)
StrLT(a, b) ==
  IF b = <<>> THEN FALSE
  ELSE IF a = <<>> THEN TRUE
  ELSE IF CodePoint(Head(a)) # CodePoint(Head(b))
       THEN CodePoint(Head(a)) < CodePoint(Head(b))
       ELSE StrLT(Tail(a), Tail(b))

\* a variant of SortKeyLT: the order of by=["date"] alone
SortKeyDateOnly(r1, r2) == StrLT(r1.date, r2.date)

\* the order of by=["date", "brand"]: r1 sorts strictly before r2
SortKeyLT(r1, r2) ==
  \/ StrLT(r1.date, r2.date)
  \/ r1.date = r2.date /\ StrLT(r1.brand, r2.brand)

\* a variant of InsertRow: a row of a date the frame already has replaces
\* the row of that date
RECURSIVE InsertRowPerDate(_, _)
InsertRowPerDate(r, sorted) ==
  IF sorted = <<>> THEN <<r>>
  ELSE IF r.date = Head(sorted).date THEN <<r>> \o Tail(sorted)
  ELSE IF SortKeyLT(r, Head(sorted)) THEN <<r>> \o sorted
       ELSE <<Head(sorted)>> \o InsertRowPerDate(r, Tail(sorted))

\* one row put into a sorted frame, after the rows that do not sort after it
RECURSIVE InsertRow(_, _)
InsertRow(r, sorted) ==
  IF sorted = <<>> THEN <<r>>
  ELSE IF SortKeyLT(r, Head(sorted)) THEN <<r>> \o sorted
       ELSE <<Head(sorted)>> \o InsertRow(r, Tail(sorted))

RECURSIVE SortFrom(_, _)
SortFrom(frame, sorted) ==
  IF frame = <<>> THEN sorted
  ELSE SortFrom(Tail(frame), InsertRow(Head(frame), sorted))

\* df.sort_values(by=["date", "brand"])
sort_values(frame) == SortFrom(frame, <<>>)

(***************************************************************************)
(* The inputs of a run and what the site can answer.                       *)
(***************************************************************************)
\* the keyword lists fetch_counts is called with
BrandLists == {<<>>, << <<"Y">>, <<"X">> >>}

\* the windows <<start_date, end_date>> of a call: two days, one day, and
\* one with start > end, which nothing in the two functions rejects
Windows ==
  { <<<<2024, 3, 2>>, <<2024, 3, 3>>>>,
    <<<<2024, 3, 2>>, <<2024, 3, 2>>>>,
    <<<<2024, 3, 3>>, <<2024, 3, 2>>>> }

\* the values dt.date.today() takes at the first call of fetch_counts
Todays == {<<2024, 3, 3>>}

\* the values dt.date.today() takes: a later call may be made a day later
Clock == Todays \cup {PlusOneDay(t) : t \in Todays}

\* the texts of the .gall_date cells of the listing rows
RowTexts ==
  { <<"2", "4", ".", "0", "3", ".", "0", "1">>,
    <<"0", "3", ".", "0", "2">>,
    <<" ", "1", "4", ":", "3", "2">>,
    <<"-">> }

\* a tr.ub-content row: its .gall_date cell may be missing
Rows ==
  [has_date : {TRUE}, text : RowTexts] \cup {[has_date |-> FALSE, text |-> <<>>]}

\* soup.select("tr.ub-content") of a page body: at most MaxRows rows
PageBodies == UNION {[1..n -> Rows] : n \in 0..MaxRows}

\* RETRY_STRATEGY: Retry(total=3, ...)
RetryTotal == 3

\* RETRY_STRATEGY: status_forcelist
StatusForcelist == {429, 500, 502, 503, 504}

\* what the site answers to one GET: a status, and for 200 a body with or
\* without tr.ub-content rows
Answers ==
  {[status |-> 200, has_rows |-> TRUE], [status |-> 200, has_rows |-> FALSE]}
    \cup [status : {404, 429, 501, 503}, has_rows : {FALSE}]

\* the answers of the site to ScriptLen successive GETs of one page
Scripts == [1..ScriptLen -> Answers]

\* status codes of a response other than 200
ErrorStatuses == {404, 503}

(***************************************************************************)
(* State.                                                                  *)
(***************************************************************************)
VARIABLES
  brands,        \* fetch_counts argument: the keywords, in order
  start_date,    \* argument
  end_date,      \* argument
  max_page,      \* argument
  progress_cb,   \* argument: TRUE when a callback is supplied
  listing,       \* the site's pages, or <<>> when the site answers freely
  pc,            \* the position of the control flow
  brand_idx,     \* fetch_counts: index of the brand of the for loop
  today,         \* get_counts_in_range: today
  page,          \* get_counts_in_range: page of the for loop
  daily_count,   \* get_counts_in_range: items of the dict, in insertion order
  res,           \* the outcome of the last SESSION.get, its rows summarised
  requests,      \* the pages requested for the current keyword, in order
  rows_seen,     \* number of rows of each date on the 200 pages so far
  failed,        \* number of pages of the current keyword skipped on a failure
  effects,       \* print, progress_cb and time.sleep calls of the last step
  all_data,      \* fetch_counts: all_data
  df,            \* fetch_counts: the frame returned
  clock,         \* the date dt.date.today() returns
  run,           \* the number of calls of fetch_counts made
  first,         \* the frame the first call returned and the date of that call
  script,        \* the site's answers to the successive GETs of one page
  attempt,       \* the number of GETs the adapter has sent for the page
  total,         \* the adapter's Retry.total: the retries left
  response,      \* the response SESSION.get returns, NoResponse before
  outcome,       \* what the crawler makes of the response, "" before
  date_text,     \* date_tag.text: the text normalize_date is called with
  date_parsed    \* the date normalize_date returned, None before

vars == <<brands, start_date, end_date, max_page, progress_cb, listing, pc,
          brand_idx, today, page, daily_count, res, requests, rows_seen,
          failed, effects, all_data, df, clock, run, first, script,
          attempt, total, response, outcome, date_text,
          date_parsed>>

\* a call of normalize_date on its own
normalizer == <<date_text, date_parsed>>

\* SESSION.get for one page, seen from inside the adapter
transport == <<script, attempt, total, response, outcome>>

\* what lies outside a call of fetch_counts
calls == <<clock, run, first>>

inputs == <<brands, start_date, end_date, max_page, progress_cb, listing>>

\* the outcome of the request for page p: how it ended, the status code,
\* whether the body had rows and the oldest date its rows show
Res(p, kind, status, has_rows, oldest) ==
  [page |-> p, kind |-> kind, status |-> status, has_rows |-> has_rows,
   oldest |-> oldest]

NoRes == Res(0, "none", 0, FALSE, None)

\* normalize_date on the pairs of S, as a table
RECURSIVE NormalizedOn(_)
NormalizedOn(S) ==
  IF S = {} THEN <<>>
  ELSE LET p == CHOOSE p \in S : TRUE
       IN  (p :> normalize_date(p[1], p[2])) @@ NormalizedOn(S \ {p})

\* normalize_date(text, today) for the texts of the site, evaluated once
Normalized == NormalizedOn(RowTexts \X Clock)

\* the dates the rows of the site can carry
RowDates == {Normalized[t, d] : t \in RowTexts, d \in Clock} \ {None}

NoFirst == [df |-> <<>>, today |-> None]

NoRowsSeen == [d \in RowDates |-> 0]

\* the state at the call of fetch_counts, but for its arguments
InitLocals ==
  /\ pc = "fetch_counts"
  /\ brand_idx = 0
  /\ today = None
  /\ page = 0
  /\ daily_count = <<>>
  /\ res = NoRes
  /\ requests = <<>>
  /\ rows_seen = NoRowsSeen
  /\ failed = 0
  /\ effects = <<>>
  /\ all_data = <<>>
  /\ df = <<>>
  /\ clock \in Todays
  /\ run = 1
  /\ first = NoFirst

NoResponse == [status |-> 0, has_rows |-> FALSE]

\* normalize_date is not followed on its own
NoNormalizer == date_text = <<>> /\ date_parsed = None

\* no page is followed inside the adapter
NoTransport ==
  /\ script = <<>>
  /\ attempt = 0
  /\ total = RetryTotal
  /\ response = NoResponse
  /\ outcome = ""

\* a call of fetch_counts against a site that answers freely
Init ==
  /\ brands \in BrandLists
  /\ \E w \in Windows : start_date = w[1] /\ end_date = w[2]
  /\ max_page \in 1..MaxPage
  /\ progress_cb \in BOOLEAN
  /\ listing = <<>>
  /\ InitLocals
  /\ NoTransport
  /\ NoNormalizer

(***************************************************************************)
(* A site that holds one fixed listing, newest rows first: no row of a     *)
(* later page is dated after a row of an earlier page.                     *)
(***************************************************************************)
\* the rows of the pages of a listing: every row shows a date
ListingRows ==
  [has_date : {TRUE},
   text : {t \in RowTexts : \A d \in Todays : Normalized[t, d] # None}]

\* the page bodies of a listing: no page is without rows
ListingBodies == UNION {[1..n -> ListingRows] : n \in 1..MaxRows}

\* the dates of the rows of a page body that show a date
BodyDates(body) ==
  {Normalized[body[i].text, d] : i \in 1..Len(body), d \in Todays} \ {None}

\* the listings in `shorter`, each with its dates, with one more page whose
\* dates are `dates`: the page fits when none of its rows is newer than a
\* row of an earlier page
OnePageMore(shorter, body, dates) ==
  {<<Append(p[1], body), p[2] \cup dates>> :
     p \in {q \in shorter : \A a \in dates, e \in q[2] : DateLE(a, e)}}

\* the listings of n pages whose dates do not increase from page to page,
\* each with the set of its dates
RECURSIVE SortedListings(_)
SortedListings(n) ==
  IF n = 0 THEN {<< <<>>, {} >>}
  ELSE UNION {OnePageMore(SortedListings(n - 1), body, BodyDates(body)) :
                body \in ListingBodies}

Listings == {p[1] : p \in UNION {SortedListings(n) : n \in 1..MaxPage}}

\* a call of fetch_counts for one keyword against the site of a listing
InitListing ==
  /\ brands = << <<"X">> >>
  /\ \E w \in Windows : start_date = w[1] /\ end_date = w[2]
  /\ max_page \in 1..MaxPage
  /\ progress_cb = FALSE
  /\ listing \in Listings
  /\ InitLocals
  /\ NoTransport
  /\ NoNormalizer

(***************************************************************************)
(* Side effects.                                                           *)
(***************************************************************************)
Msg(fmt, keyword, p, detail) ==
  [fmt |-> fmt, keyword |-> keyword, page |-> p, detail |-> detail]

NoMsg == Msg("", <<>>, 0, 0)

Printed(m) == [op |-> "print", msg |-> m, ms |-> 0]
Callback(m) == [op |-> "progress_cb", msg |-> m, ms |-> 0]
Sleep(ms) == [op |-> "sleep", msg |-> NoMsg, ms |-> ms]

\* if progress_cb: progress_cb(m)
IfCallback(m) == IF progress_cb THEN <<Callback(m)>> ELSE <<>>

\* print(m) followed by the guarded progress_cb(m)
PrintedAndReported(m) == <<Printed(m)>> \o IfCallback(m)

(***************************************************************************)
(* get_counts_in_range: the work on the rows of one page.                  *)
(***************************************************************************)
\* a variant of Increment: a key already present keeps its count
IncrementOnce(dc, key) ==
  IF \E i \in 1..Len(dc) : dc[i].day = key
  THEN dc
  ELSE Append(dc, [day |-> key, count |-> 1])

\* daily_count[key] += 1 on the defaultdict(int)
Increment(dc, key) ==
  IF \E i \in 1..Len(dc) : dc[i].day = key
  THEN [i \in 1..Len(dc) |->
          IF dc[i].day = key THEN [dc[i] EXCEPT !.count = @ + 1] ELSE dc[i]]
  ELSE Append(dc, [day |-> key, count |-> 1])

\* a variant of Counted: without the test `parsed > end_date`
CountedNoEnd(parsed, start, end) == ~DateLT(parsed, start)

\* neither `parsed < start_date` nor `parsed > end_date` skips the row
Counted(parsed, start, end) == ~DateLT(parsed, start) /\ ~DateLT(end, parsed)

\* the body of `for row in rows` from `if not parsed` on
RowParsed(parsed, acc, start, end) ==
  IF parsed = None THEN acc
  ELSE IF Counted(parsed, start, end)
       THEN [daily_count |-> Increment(acc.daily_count, isoformat(parsed)),
             parsed_dates |-> Append(acc.parsed_dates, parsed)]
       ELSE [acc EXCEPT !.parsed_dates = Append(@, parsed)]

\* the body of `for row in rows` for one row
RowStep(row, acc, start, end, tday) ==
  IF ~row.has_date THEN acc
  ELSE RowParsed(Normalized[row.text, tday], acc, start, end)

\* `for row in rows`
RECURSIVE RowLoop(_, _, _, _, _)
RowLoop(rows, acc, start, end, tday) ==
  IF rows = <<>> THEN acc
  ELSE RowLoop(Tail(rows), RowStep(Head(rows), acc, start, end, tday),
               start, end, tday)

\* a variant of StopAfterPage: the stop only when every date of the page is
\* before start_date
StopWhenAllOlder(parsed_dates, start) ==
  /\ parsed_dates # <<>>
  /\ \A i \in 1..Len(parsed_dates) : DateLT(parsed_dates[i], start)

\* a variant of StopAfterPage: the stop already when the oldest date of the
\* page is start_date
StopAtStart(parsed_dates, start) ==
  parsed_dates # <<>> /\ DateLE(MinDate(parsed_dates), start)

\* a variant of StopAfterPage: the stop also when no row of the page shows a
\* date
StopWhenNoDates(parsed_dates, start) ==
  parsed_dates = <<>> \/ DateLT(MinDate(parsed_dates), start)

\* `if parsed_dates and min(parsed_dates) < start_date: break`
StopAfterPage(parsed_dates, start) ==
  parsed_dates # <<>> /\ DateLT(MinDate(parsed_dates), start)

\* the dates that the .gall_date cells of the rows of a page show, one per
\* row that shows a date
RECURSIVE DatesOf(_, _)
DatesOf(rows, tday) ==
  IF rows = <<>> THEN <<>>
  ELSE (IF Head(rows).has_date /\ Normalized[Head(rows).text, tday] # None
        THEN <<Normalized[Head(rows).text, tday]>>
        ELSE <<>>) \o DatesOf(Tail(rows), tday)

\* rows_seen with the rows of a page added
RECURSIVE SeeDates(_, _)
SeeDates(seen, dates) ==
  IF dates = <<>> THEN seen
  ELSE SeeDates([seen EXCEPT ![Head(dates)] = @ + 1], Tail(dates))

\* the oldest of a page's dates, None when its rows show none
Oldest(dates) ==
  IF dates = <<>> THEN None
  ELSE CHOOSE d \in RowDates :
         /\ \E i \in 1..Len(dates) : dates[i] = d
         /\ \A i \in 1..Len(dates) : DateLE(d, dates[i])

(***************************************************************************)
(* Actions.                                                                *)
(***************************************************************************)
brand == brands[brand_idx]

\* the end of one pass of `for page in range(1, max_page + 1)`
NextIteration ==
  IF page < max_page
  THEN page' = page + 1 /\ pc' = "page_loop"
  ELSE page' = page /\ pc' = "return"

\* `break`
Break == page' = page /\ pc' = "return"

\* fetch_counts: one pass of `for brand in brands` up to the call of
\* get_counts_in_range, and the start of that call
BrandLoop ==
  /\ pc = "fetch_counts"
  /\ brand_idx < Len(brands)
  /\ brand_idx' = brand_idx + 1
  /\ effects' = IfCallback(Msg("start", brands[brand_idx + 1], 0, 0))
  /\ daily_count' = <<>>
  /\ today' = clock
  /\ IF max_page >= 1
     THEN page' = 1 /\ pc' = "page_loop"
     ELSE page' = 0 /\ pc' = "return"
  /\ res' = NoRes
  /\ requests' = <<>>
  /\ rows_seen' = NoRowsSeen
  /\ failed' = 0
  /\ UNCHANGED <<inputs, calls, transport, normalizer, all_data, df>>

\* the head of the page loop: the progress message and SESSION.get sent
PageRequest ==
  /\ pc = "page_loop"
  /\ effects' = PrintedAndReported(Msg("collecting", brand, page, 0))
  /\ requests' = Append(requests, page)
  /\ pc' = "get"
  /\ UNCHANGED <<inputs, calls, transport, normalizer, brand_idx, today, page,
                 daily_count, res, rows_seen, failed, all_data, df>>

\* a variant of ReadTimeout: `break` in place of `continue`
ReadTimeoutBreak ==
  /\ pc = "get"
  /\ res' = Res(page, "ReadTimeout", 0, FALSE, None)
  /\ effects' = PrintedAndReported(Msg("timed out", brand, page, 0))
  /\ failed' = failed + 1
  /\ Break
  /\ UNCHANGED <<inputs, calls, transport, normalizer, brand_idx, today,
                 daily_count, requests, rows_seen, all_data, df>>

\* SESSION.get raises requests.exceptions.ReadTimeout
ReadTimeout ==
  /\ pc = "get"
  /\ res' = Res(page, "ReadTimeout", 0, FALSE, None)
  /\ effects' = PrintedAndReported(Msg("timed out", brand, page, 0))
  /\ failed' = failed + 1
  /\ NextIteration
  /\ UNCHANGED <<inputs, calls, transport, normalizer, brand_idx, today,
                 daily_count, requests, rows_seen, all_data, df>>

\* SESSION.get raises another requests.exceptions.RequestException
RequestException ==
  /\ pc = "get"
  /\ res' = Res(page, "RequestException", 0, FALSE, None)
  /\ effects' = PrintedAndReported(Msg("request failed", brand, page, 0))
                  \o <<Sleep(1000)>>
  /\ failed' = failed + 1
  /\ NextIteration
  /\ UNCHANGED <<inputs, calls, transport, normalizer, brand_idx, today,
                 daily_count, requests, rows_seen, all_data, df>>

\* a variant of StatusNot200: the page is requested again
StatusNot200Again ==
  /\ pc = "get"
  /\ \E code \in ErrorStatuses :
       /\ res' = Res(page, "response", code, FALSE, None)
       /\ effects' = PrintedAndReported(Msg("status", brand, 0, code))
                       \o <<Sleep(1000)>>
  /\ failed' = failed + 1
  /\ page' = page
  /\ pc' = "page_loop"
  /\ UNCHANGED <<inputs, calls, transport, normalizer, brand_idx, today,
                 daily_count, requests, rows_seen, all_data, df>>

\* the response has a status code other than 200
StatusNot200 ==
  /\ pc = "get"
  /\ \E code \in ErrorStatuses :
       /\ res' = Res(page, "response", code, FALSE, None)
       /\ effects' = PrintedAndReported(Msg("status", brand, 0, code))
                       \o <<Sleep(1000)>>
  /\ failed' = failed + 1
  /\ NextIteration
  /\ UNCHANGED <<inputs, calls, transport, normalizer, brand_idx, today,
                 daily_count, requests, rows_seen, all_data, df>>

\* the body the site answers for the page requested
Served(rows) ==
  IF listing = <<>> THEN rows \in PageBodies
  ELSE rows = (IF page <= Len(listing) THEN listing[page] ELSE <<>>)

\* a variant of NoRows: `continue` in place of `break`
NoRowsContinue ==
  /\ pc = "get"
  /\ Served(<<>>)
  /\ res' = Res(page, "response", 200, FALSE, None)
  /\ effects' = <<Printed(Msg("no rows", brand, page, 0))>>
  /\ NextIteration
  /\ UNCHANGED <<inputs, calls, transport, normalizer, brand_idx, today,
                 daily_count, requests, rows_seen, failed, all_data, df>>

\* status 200 and no tr.ub-content row in the body
NoRows ==
  /\ pc = "get"
  /\ Served(<<>>)
  /\ res' = Res(page, "response", 200, FALSE, None)
  /\ effects' = <<Printed(Msg("no rows", brand, page, 0))>>
  /\ Break
  /\ UNCHANGED <<inputs, calls, transport, normalizer, brand_idx, today,
                 daily_count, requests, rows_seen, failed, all_data, df>>

\* after `for row in rows`: the counts kept, then the stop test or the delay
AfterRows(acc) ==
  /\ daily_count' = acc.daily_count
  /\ IF StopAfterPage(acc.parsed_dates, start_date)
     THEN effects' = <<>> /\ Break
     ELSE effects' = <<Sleep(500)>> /\ NextIteration

\* status 200 and rows: the rows counted, then the stop test or the delay
RowsPage ==
  /\ pc = "get"
  /\ \E rows \in PageBodies \ {<<>>} :
       /\ Served(rows)
       /\ res' = Res(page, "response", 200, TRUE, Oldest(DatesOf(rows, today)))
       /\ rows_seen' = SeeDates(rows_seen, DatesOf(rows, today))
       /\ AfterRows(RowLoop(rows, [daily_count |-> daily_count,
                                   parsed_dates |-> <<>>],
                            start_date, end_date, today))
  /\ UNCHANGED <<inputs, calls, transport, normalizer, brand_idx, today,
                 requests, failed, all_data, df>>

\* `return daily_count`, and fetch_counts appends its items to all_data
Return ==
  /\ pc = "return"
  /\ all_data' = all_data \o
       [i \in 1..Len(daily_count) |->
          [brand |-> brand, date |-> daily_count[i].day,
           count |-> daily_count[i].count]]
  /\ pc' = "fetch_counts"
  /\ effects' = <<>>
  /\ UNCHANGED <<inputs, calls, transport, normalizer, brand_idx, today, page,
                 daily_count, res, requests, rows_seen, failed, df>>

\* after the brand loop: the frame, sorted unless empty
BuildFrame ==
  /\ pc = "fetch_counts"
  /\ brand_idx = Len(brands)
  /\ df' = IF all_data = <<>> THEN <<>> ELSE sort_values(all_data)
  /\ pc' = "done"
  /\ effects' = <<>>
  /\ UNCHANGED <<inputs, calls, transport, normalizer, brand_idx, today, page,
                 daily_count, res, requests, rows_seen, failed, all_data>>

Next ==
  \/ BrandLoop
  \/ PageRequest
  \/ ReadTimeout
  \/ RequestException
  \/ StatusNot200
  \/ NoRows
  \/ RowsPage
  \/ Return
  \/ BuildFrame

Spec == Init /\ [][Next]_vars

\* every step of the program that can be taken is taken: SESSION.get returns
\* or raises within its timeouts, and time.sleep returns
FairSpec == Spec /\ WF_vars(Next)

\* the site of the fixed listing answers every request with status 200
NextListing ==
  \/ BrandLoop
  \/ PageRequest
  \/ NoRows
  \/ RowsPage
  \/ Return
  \/ BuildFrame

SpecListing == InitListing /\ [][NextListing]_vars

(***************************************************************************)
(* Two calls of fetch_counts with the same arguments against the site of   *)
(* one listing.                                                            *)
(***************************************************************************)
\* a variant of Rerun: all_data is a list that outlives the call
RerunKeepingData ==
  /\ pc = "done"
  /\ run = 1
  /\ run' = 2
  /\ first' = [df |-> df, today |-> clock]
  /\ clock' \in {clock, PlusOneDay(clock)}
  /\ pc' = "fetch_counts"
  /\ brand_idx' = 0
  /\ df' = <<>>
  /\ today' = None
  /\ page' = 0
  /\ daily_count' = <<>>
  /\ res' = NoRes
  /\ requests' = <<>>
  /\ rows_seen' = NoRowsSeen
  /\ failed' = 0
  /\ effects' = <<>>
  /\ UNCHANGED <<inputs, transport, normalizer, all_data>>

\* the caller keeps the frame of the first call and calls fetch_counts again
\* with the same arguments, on the same day or on the next: all_data = []
\* anew, and the locals of the first call are gone
Rerun ==
  /\ pc = "done"
  /\ run = 1
  /\ run' = 2
  /\ first' = [df |-> df, today |-> clock]
  /\ clock' \in {clock, PlusOneDay(clock)}
  /\ pc' = "fetch_counts"
  /\ brand_idx' = 0
  /\ all_data' = <<>>
  /\ df' = <<>>
  /\ today' = None
  /\ page' = 0
  /\ daily_count' = <<>>
  /\ res' = NoRes
  /\ requests' = <<>>
  /\ rows_seen' = NoRowsSeen
  /\ failed' = 0
  /\ effects' = <<>>
  /\ UNCHANGED <<inputs, transport, normalizer>>

NextTwice ==
  \/ BrandLoop
  \/ PageRequest
  \/ NoRows
  \/ RowsPage
  \/ Return
  \/ BuildFrame
  \/ Rerun

SpecTwice == InitListing /\ [][NextTwice]_vars

(***************************************************************************)
(* SESSION.get for one page, seen from inside the adapter that             *)
(* RETRY_STRATEGY is mounted on, and what the crawler makes of the         *)
(* response.                                                               *)
(***************************************************************************)
\* the locals of fetch_counts and get_counts_in_range
crawl == <<pc, brand_idx, today, page, daily_count, res, requests, rows_seen,
           failed, effects, all_data, df>>

\* one page is fetched from a site that has its answers ready
InitTransport ==
  /\ brands = <<>>
  /\ \E w \in Windows : start_date = w[1] /\ end_date = w[2]
  /\ max_page = 1
  /\ progress_cb = FALSE
  /\ listing = <<>>
  /\ InitLocals
  /\ script \in Scripts
  /\ attempt = 0
  /\ total = RetryTotal
  /\ response = NoResponse
  /\ outcome = ""
  /\ NoNormalizer

\* a variant of Urlopen: an adapter without retries
UrlopenOnce ==
  /\ response = NoResponse
  /\ attempt < Len(script)
  /\ attempt' = attempt + 1
  /\ total' = total
  /\ response' = script[attempt + 1]
  /\ UNCHANGED <<script, outcome, inputs, calls, normalizer, crawl>>

\* the adapter sends one GET.  An answer whose status is in status_forcelist
\* takes one from Retry.total: while that is not below 0 another GET
\* follows, else the answer is returned as it is (raise_on_status=False).
\* Any other answer is returned.
Urlopen ==
  /\ response = NoResponse
  /\ attempt < Len(script)
  /\ attempt' = attempt + 1
  /\ IF script[attempt + 1].status \in StatusForcelist
     THEN /\ total' = total - 1
          /\ response' = IF total - 1 >= 0 THEN NoResponse
                          ELSE script[attempt + 1]
     ELSE /\ total' = total
          /\ response' = script[attempt + 1]
  /\ UNCHANGED <<script, outcome, inputs, calls, normalizer, crawl>>

\* get_counts_in_range on the response: a status other than 200 is a failed
\* page that is skipped, a 200 without rows ends the page loop, a 200 with
\* rows has its rows counted
Classify ==
  /\ response # NoResponse
  /\ outcome = ""
  /\ outcome' = IF response.status # 200 THEN "RetryableFailure"
                ELSE IF ~response.has_rows THEN "FatalFailure"
                ELSE "Success"
  /\ UNCHANGED <<script, attempt, total, response, inputs, calls, normalizer,
                 crawl>>

NextTransport ==
  \/ Urlopen
  \/ Classify

SpecTransport == InitTransport /\ [][NextTransport]_vars

(***************************************************************************)
(* normalize_date on its own: one call with a text and a today.            *)
(***************************************************************************)
\* the tokens of the texts
Tokens ==
  { <<"U+C624", "U+B298">>,
    <<"U+C5B4", "U+C81C">>,
    <<"1", "4", ":", "3", "2">>,
    <<"2", "0", "2", "4", ".", "0", "3", ".", "0", "1">>,
    <<"2", "4", ".", "0", "3", ".", "0", "1">>,
    <<"0", "3", ".", "0", "1">>,
    <<"0", "3", "/", "0", "1">>,
    <<"2", "0", "2", "4", "-", "0", "3", "-", "0", "1">>,
    <<"0", "2", ".", "2", "9">>,
    <<"0", "2", "/", "2", "9">>,
    <<"0", "2", ".", "3", "0">>,
    <<"1", "2", ".", "3", "1">>,
    <<"3", ".", "1">>,
    <<"-">>,
    <<>>,
    <<"U+C624", "U+B298", ":">>,
    <<"0", "3", ".", "0", "1", "\t", "1", "4", ":", "3", "2">>,
    <<"2", "0", "2", "4", ".", "0", "3", ".", "0", "1", "1">> }

\* what stands before and after the token in a text
Leads == {<<>>, <<" ">>, <<"\n", " ">>}
Trails == {<<>>, <<" ", "1", "4", ":", "3", "2">>, <<" ">>, <<" ", "-">>}

\* the texts normalize_date is called with
Texts == {l \o t \o r : l \in Leads, t \in Tokens, r \in Trails}

\* the todays normalize_date is called with: in a leap year, in a common
\* year, on the first day of a year
NormalizeTodays == {<<2024, 3, 3>>, <<2023, 3, 1>>, <<2024, 1, 1>>}

InitNormalize ==
  /\ brands = <<>>
  /\ \E w \in Windows : start_date = w[1] /\ end_date = w[2]
  /\ max_page = 1
  /\ progress_cb = FALSE
  /\ listing = <<>>
  /\ pc = "normalize_date"
  /\ today \in NormalizeTodays
  /\ date_text \in Texts
  /\ date_parsed = None
  /\ brand_idx = 0
  /\ page = 0
  /\ daily_count = <<>>
  /\ res = NoRes
  /\ requests = <<>>
  /\ rows_seen = NoRowsSeen
  /\ failed = 0
  /\ effects = <<>>
  /\ all_data = <<>>
  /\ df = <<>>
  /\ clock = today
  /\ run = 1
  /\ first = NoFirst
  /\ NoTransport

\* parsed = normalize_date(date_tag.text, today)
Normalize ==
  /\ pc = "normalize_date"
  /\ date_parsed' = normalize_date(date_text, today)
  /\ pc' = "returned"
  /\ UNCHANGED <<inputs, calls, transport, date_text, brand_idx, today, page,
                 daily_count, res, requests, rows_seen, failed, effects,
                 all_data, df>>

NextNormalize == Normalize

SpecNormalize == InitNormalize /\ [][NextNormalize]_vars

(***************************************************************************)
(* Properties.                                                             *)
(***************************************************************************)
\* date.fromisoformat(key) of a key "YYYY-MM-DD"
fromisoformat(key) ==
  << 1000 * DigitVal(key[1]) + 100 * DigitVal(key[2]) + 10 * DigitVal(key[3])
       + DigitVal(key[4]),
     10 * DigitVal(key[6]) + DigitVal(key[7]),
     10 * DigitVal(key[9]) + DigitVal(key[10]) >>

\* d lies within the window of the call
InWindow(d) == DateLE(start_date, d) /\ DateLE(d, end_date)

\* the count daily_count holds for the date d, 0 when d is not a key
CountOf(d) ==
  IF \E i \in 1..Len(daily_count) : daily_count[i].day = isoformat(d)
  THEN daily_count[CHOOSE i \in 1..Len(daily_count) :
                     daily_count[i].day = isoformat(d)].count
  ELSE 0

\* the keys of daily_count are distinct, each the isoformat of a date a row
\* showed, each with a positive count
KeysWellFormed ==
  /\ \A i, j \in 1..Len(daily_count) :
       daily_count[i].day = daily_count[j].day => i = j
  /\ \A i \in 1..Len(daily_count) :
       /\ daily_count[i].count > 0
       /\ \E d \in RowDates : daily_count[i].day = isoformat(d)

\* the outcomes of a page
RetryableFailure(r) ==
  \/ r.kind \in {"ReadTimeout", "RequestException"}
  \/ r.kind = "response" /\ r.status # 200

FatalFailure(r) == r.kind = "response" /\ r.status = 200 /\ ~r.has_rows

Success(r) == r.kind = "response" /\ r.status = 200 /\ r.has_rows

\* a Success page with a row dated before start_date
HasRowBeforeStart(r) ==
  Success(r) /\ r.oldest # None /\ DateLT(r.oldest, start_date)

\* C1: at every point of a crawl and on return, every key of daily_count,
\* and so the date of every row of all_data and of the frame returned, is a
\* date d with start_date <= d <= end_date.
C1_NoWindowLeakage ==
  /\ \A i \in 1..Len(daily_count) :
       InWindow(fromisoformat(daily_count[i].day))
  /\ \A i \in 1..Len(all_data) : InWindow(fromisoformat(all_data[i].date))
  /\ \A i \in 1..Len(df) : InWindow(fromisoformat(df[i].date))

\* the frame is returned with rows, start_date <= end_date, and the last
\* keyword's pages showed a row dated outside the window
C1_Witness ==
  /\ pc = "done"
  /\ df # <<>>
  /\ DateLE(start_date, end_date)
  /\ \E d \in RowDates : rows_seen[d] > 0 /\ DateLT(end_date, d)
  /\ \E d \in RowDates : rows_seen[d] > 0 /\ DateLT(d, start_date)

\* C2: when get_counts_in_range returns, daily_count holds for every date d
\* in the window the number of rows dated d on the Success pages fetched,
\* the page at which pagination ended included, and a date without such a
\* row is not a key.
C2_CountsExact ==
  pc = "return" =>
    /\ KeysWellFormed
    /\ \A d \in RowDates :
         CountOf(d) = (IF InWindow(d) THEN rows_seen[d] ELSE 0)

\* get_counts_in_range returns after the second page, which stopped
\* pagination with a row before start_date, and a date has the count 3: two
\* pages of at most two rows, so a row of the stopping page is counted
C2_Witness ==
  /\ pc = "return"
  /\ res.page = 2
  /\ HasRowBeforeStart(res)
  /\ \E i \in 1..Len(daily_count) : daily_count[i].count = 3

\* C3: once a Success page p has a row dated before start_date, no request
\* is issued for page p + 1 or a later page of that keyword: the crawl of the
\* keyword is over and the requests made are those for pages 1..p.
C3_StopInvariant ==
  HasRowBeforeStart(res) =>
    /\ pc \in {"return", "fetch_counts", "done"}
    /\ Len(requests) = res.page
    /\ \A i \in 1..Len(requests) : requests[i] = i

\* a page before max_page had a row in the window and a row before
\* start_date, and the call has returned
C3_Witness ==
  /\ pc = "fetch_counts"
  /\ HasRowBeforeStart(res)
  /\ res.page < max_page
  /\ \E d \in RowDates : InWindow(d) /\ rows_seen[d] > 0

\* the number of rows dated d in the whole listing
ListingCount(d) ==
  Cardinality({ij \in (1..Len(listing)) \X (1..MaxRows) :
                 /\ ij[2] <= Len(listing[ij[1]])
                 /\ Normalized[listing[ij[1]][ij[2]].text, today] = d})

\* C4: on a listing whose dates do not increase from page to page, every
\* page a Success, when pagination stops on the stop test at a page before
\* max_page, no later page of the listing has a row in the window, and the
\* counts returned are the counts of the whole listing.
C4_StopLosesNothing ==
  (pc = "return" /\ Success(res) /\ res.page < max_page) =>
    /\ \A j \in (res.page + 1)..Len(listing) : \A i \in 1..Len(listing[j]) :
         ~InWindow(Normalized[listing[j][i].text, today])
    /\ \A d \in RowDates : InWindow(d) => CountOf(d) = ListingCount(d)

\* pagination stopped on the stop test at a page that is followed by another
\* page of the listing, with rows counted
C4_Witness ==
  /\ pc = "return"
  /\ HasRowBeforeStart(res)
  /\ res.page < max_page
  /\ res.page < Len(listing)
  /\ daily_count # <<>>

\* the messages of the three failure branches
FailureMsgs == {"timed out", "request failed", "status"}

\* the step that handles a failed request: the failure is printed, and passed
\* to progress_cb when there is one; daily_count is left as it was; no
\* request is made; the page loop goes on with page + 1, or is over when
\* page = max_page
C5_Handled ==
  (pc = "get" /\ RetryableFailure(res')) =>
    /\ res'.page = page
    /\ \E i \in 1..Len(effects') :
         /\ effects'[i].op = "print"
         /\ effects'[i].msg.fmt \in FailureMsgs
         /\ effects'[i].msg.keyword = brand
    /\ progress_cb =>
         \E i \in 1..Len(effects') :
           /\ effects'[i].op = "progress_cb"
           /\ effects'[i].msg.fmt \in FailureMsgs
           /\ effects'[i].msg.keyword = brand
    /\ daily_count' = daily_count
    /\ requests' = requests
    /\ IF page < max_page
       THEN pc' = "page_loop" /\ page' = page + 1
       ELSE pc' = "return" /\ page' = page

\* the request that follows a failed page p is the request for page p + 1
C5_NextRequest ==
  (pc = "page_loop" /\ RetryableFailure(res)) =>
    /\ pc' = "get"
    /\ requests' = Append(requests, res.page + 1)

\* C5: on a RetryableFailure of page p (read timeout, other request
\* exception, status other than 200) the failure is reported, daily_count is
\* left unchanged, the crawl is not stopped, and when p < max_page the next
\* request is for page p + 1.
C5_RetryableFailure == [][C5_Handled /\ C5_NextRequest]_vars

\* with a callback supplied, a page failed and the request for the page
\* after it has been sent
C5_Witness ==
  /\ pc = "get"
  /\ progress_cb
  /\ RetryableFailure(res)
  /\ requests[Len(requests)] = res.page + 1

\* the step that handles a page of status 200 without rows ends the page
\* loop with daily_count as it was and no request made
C6_Handled ==
  (pc = "get" /\ FatalFailure(res')) =>
    /\ res'.page = page
    /\ pc' = "return"
    /\ daily_count' = daily_count
    /\ requests' = requests

\* after such a page, for as long as its keyword is the current one, no
\* request is made and daily_count stays as it was
C6_Over ==
  (FatalFailure(res) /\ brand_idx' = brand_idx) =>
    /\ pc' \in {"fetch_counts", "done"}
    /\ requests' = requests
    /\ Len(requests) = res.page
    /\ daily_count' = daily_count

\* the items of daily_count are what the call returns to fetch_counts
C6_Returned ==
  (FatalFailure(res) /\ pc = "return") =>
    /\ Len(all_data') = Len(all_data) + Len(daily_count)
    /\ \A i \in 1..Len(daily_count) :
         /\ all_data'[Len(all_data) + i].date = daily_count[i].day
         /\ all_data'[Len(all_data) + i].count = daily_count[i].count

\* C6: on a FatalFailure of page p (status 200, no listing row) pagination
\* for the keyword ends at once: page p is not requested again, no page
\* after p is requested, and the daily_count of the pages before p is
\* returned unchanged.
C6_FatalFailure == [][C6_Handled /\ C6_Over /\ C6_Returned]_vars

\* a page before max_page had no rows and the call is about to return
C6_Witness ==
  /\ pc = "return"
  /\ FatalFailure(res)
  /\ res.page < max_page

\* C7: after every RetryableFailure of a page, whatever its cause, the
\* crawler pauses for 1 second before it issues the request for the next
\* page.
C7_BackoffBeforeNextPage ==
  (pc = "page_loop" /\ RetryableFailure(res)) =>
    \E i \in 1..Len(effects) : effects[i] = Sleep(1000)

\* C8: a call with start_date > end_date fails fast: it requests no page
\* and does not return a frame.
C8_InvertedWindowFailsFast ==
  DateLT(end_date, start_date) => (requests = <<>> /\ pc # "done")

\* every page requested for the current keyword failed
AllFailed == failed = Len(requests)

\* when every page of the keyword has failed, the call returns after
\* max_page requests, one per page, with an empty daily_count
C9_Exhausted ==
  (pc' = "return" /\ AllFailed') =>
    /\ Len(requests') = max_page
    /\ \A i \in 1..max_page : requests'[i] = i
    /\ daily_count' = <<>>

\* the call returns to fetch_counts, which keeps the rows of the other
\* keywords as they are and adds none
C9_Returned ==
  (pc = "return" /\ AllFailed) =>
    /\ pc' = "fetch_counts"
    /\ all_data' = all_data

\* fetch_counts then starts the crawl of the next keyword, if there is one
C9_NextKeyword ==
  (pc = "fetch_counts" /\ brand_idx > 0 /\ AllFailed
     /\ brand_idx < Len(brands)) =>
    /\ brand_idx' = brand_idx + 1
    /\ pc' = "page_loop"
    /\ page' = 1
    /\ daily_count' = <<>>
    /\ all_data' = all_data

\* C9: if every page 1..max_page of a keyword ends in a RetryableFailure, the
\* crawl of the keyword issues exactly max_page requests and returns an
\* empty daily_count without an error, fetch_counts goes on to the next
\* keyword, and the rows of the other keywords are not changed.
C9_TotalExhaustion == [][C9_Exhausted /\ C9_Returned /\ C9_NextKeyword]_vars

\* the first keyword gave rows, and every page of the second keyword, more
\* than one, has failed
C9_Witness ==
  /\ pc = "return"
  /\ brand_idx = 2
  /\ all_data # <<>>
  /\ max_page > 1
  /\ AllFailed

\* r1 does not sort after r2: by date, then by keyword
RowLE(r1, r2) ==
  \/ DateLT(fromisoformat(r1.date), fromisoformat(r2.date))
  \/ r1.date = r2.date /\ ~StrLT(r2.brand, r1.brand)

\* C10: the frame fetch_counts returns is ordered by date ascending, then by
\* keyword: of two consecutive rows r1, r2 either r1.date < r2.date, or the
\* dates are equal and r1.brand <= r2.brand.
C10_Ordered ==
  pc = "done" => \A i \in 1..(Len(df) - 1) : RowLE(df[i], df[i + 1])

\* the frame has rows of two keywords for one date and rows of two dates,
\* and its order is not the order in which the rows were collected
C10_Witness ==
  /\ pc = "done"
  /\ df # all_data
  /\ \E i, j \in 1..Len(df) :
       df[i].date = df[j].date /\ df[i].brand # df[j].brand
  /\ \E i, j \in 1..Len(df) : df[i].date # df[j].date

\* the number of times the row r occurs in the sequence rows
Occurrences(rows, r) == Cardinality({i \in 1..Len(rows) : rows[i] = r})

\* two sequences hold the same rows, each as often
SameRows(a, b) ==
  /\ Len(a) = Len(b)
  /\ \A i \in 1..Len(a) : Occurrences(a, a[i]) = Occurrences(b, a[i])

\* the rows (brand, day, count) of the items of daily_count
Flattened ==
  [i \in 1..Len(daily_count) |->
     [brand |-> brands[brand_idx], date |-> daily_count[i].day,
      count |-> daily_count[i].count]]

\* all_data grows only when a crawl returns, by the rows of that crawl's
\* daily_count: by none when it is empty
C11_Collected ==
  /\ pc = "return" => all_data' = all_data \o Flattened
  /\ pc # "return" => all_data' = all_data

\* the keywords are crawled one after the other in the order given, each
\* once, and the frame is built when the last has been crawled
C11_InOrder ==
  /\ brand_idx' \in {brand_idx, brand_idx + 1}
  /\ brand_idx' = brand_idx + 1 =>
       (pc = "fetch_counts" /\ pc' = "page_loop" /\ brand_idx < Len(brands))
  /\ pc' = "done" => brand_idx' = Len(brands)

\* the frame returned has the rows of all_data, each once, no two of one
\* keyword and date, and is empty when all_data is
C11_Frame ==
  pc' = "done" =>
    /\ SameRows(df', all_data')
    /\ all_data' = <<>> => df' = <<>>
    /\ \A i, j \in 1..Len(df') :
         (df'[i].brand = df'[j].brand /\ df'[i].date = df'[j].date) => i = j

\* C11: the table returned is the flattening of the daily_count of each
\* keyword: a row (k, d, c) for each count c of a date d that the crawl of k
\* returned and no other row, one row per keyword and date; a keyword with
\* an empty daily_count adds no row; each keyword is crawled once, in the
\* order given; without any row the table is empty.
C11_Flattening == [][C11_Collected /\ C11_InOrder /\ C11_Frame]_vars

\* of two keywords the first returned an empty daily_count, and the frame
\* has the rows, more than one, of the second
C11_Witness ==
  /\ pc = "done"
  /\ Len(brands) = 2
  /\ Len(df) > 1
  /\ \A i \in 1..Len(df) : df[i].brand = brands[2]

\* C12 as stated: two calls with the same keywords, window and max_page
\* against the same pages return the same frame.
C12_SameFrame == (run = 2 /\ pc = "done") => df = first.df

\* C12: two calls with the same keywords, window and max_page against the
\* same pages, made on the same day, return the same frame: the same rows
\* with the same counts in the same order; the second call starts with no
\* rows and no counts of the first.
C12_SameFrameSameDay ==
  /\ (run = 2 /\ pc = "done" /\ clock = first.today) => df = first.df
  /\ (run = 2 /\ pc = "fetch_counts" /\ brand_idx = 0) => all_data = <<>>
  /\ (run = 2 /\ pc = "page_loop" /\ page = 1) => daily_count = <<>>

\* the second call, made on the day of the first, has returned a frame of
\* more than one row
C12_Witness ==
  /\ run = 2
  /\ pc = "done"
  /\ clock = first.today
  /\ Len(df) > 1

\* the first n answers of the site have the status 503
First503(n) == \A i \in 1..n : script[i].status = 503

\* C13: when the site answers 503 to the first two GETs of a page and 200
\* with rows to the third, the outcome of the page is Success; when it
\* answers 503 to four GETs in a row, the crawler sees the status 503 and the
\* outcome is RetryableFailure.
C13_RetryAccounting ==
  outcome # "" =>
    /\ (First503(2) /\ script[3] = [status |-> 200, has_rows |-> TRUE]) =>
         (outcome = "Success" /\ attempt = 3)
    /\ First503(4) =>
         (outcome = "RetryableFailure" /\ response.status = 503 /\ attempt = 4)

\* the page whose third GET was answered with 200 and rows, after two
\* answers of 503, is a Success
C13_Witness ==
  /\ outcome = "Success"
  /\ First503(2)
  /\ attempt = 3

\* C18: for one page the adapter sends at most 3 GETs, the first included,
\* and sends another only after a 429 or a 5xx; a page answered 503 three
\* times, which the fourth GET would find answered with 200, is a
\* RetryableFailure.
C18_ThreeAttempts ==
  outcome # "" =>
    /\ attempt <= 3
    /\ \A i \in 1..(attempt - 1) :
         script[i].status = 429 \/ script[i].status \in 500..599
    /\ (First503(3) /\ script[4].status = 200) => outcome = "RetryableFailure"

\* the positions of text t that hold no whitespace
Inked(t) == {i \in 1..Len(t) : t[i] \notin Whitespace}

\* the least and the greatest member of a non-empty set of numbers
Least(S) == CHOOSE n \in S : \A m \in S : n <= m
Greatest(S) == CHOOSE n \in S : \A m \in S : m <= n

\* t from position a up to the first space after a, or up to b
UpToSpace(t, a, b) ==
  IF \E i \in a..b : t[i] = " "
  THEN SubSeq(t, a, Least({i \in a..b : t[i] = " "}) - 1)
  ELSE SubSeq(t, a, b)

\* the token of a text: the text without the whitespace around it, up to
\* its first space
TokenOf(t) ==
  IF Inked(t) = {} THEN <<>>
  ELSE UpToSpace(t, Least(Inked(t)), Greatest(Inked(t)))

\* the token is a date in one of the formats
MatchesFormat(tok, tday) == TryFormats(tok, tday, 1) # None

\* what the claim says normalize_date makes of a token
C14_Of(tok, tday, out) ==
  /\ tok = TodayToken => out = tday
  /\ tok = YesterdayToken => out = MinusOneDay(tday)
  /\ (tok \notin {TodayToken, YesterdayToken} /\ Contains(tok, ":")) =>
       out = tday
  /\ (tok \notin {TodayToken, YesterdayToken} /\ ~Contains(tok, ":")
        /\ ~MatchesFormat(tok, tday)) => out = None
  /\ tok = <<"2", "0", "2", "4", ".", "0", "3", ".", "0", "1">> =>
       out = <<2024, 3, 1>>

\* C14: normalize_date looks at the token of the text, the text trimmed and
\* cut at its first space: the today-token gives today, the yesterday-token
\* the day before, any other token with a ':' today, and a token that is
\* neither and has no date format None; so "2024.03.01 14:32" gives
\* 2024-03-01.
C14_SpecialCasesFirst ==
  pc = "returned" => C14_Of(TokenOf(date_text), today, date_parsed)

\* normalize_date has returned 2024-03-01 for a text with a date and a time
\* after a space, on another day
C14_Witness ==
  /\ pc = "returned"
  /\ Contains(date_text, ":")
  /\ date_parsed = <<2024, 3, 1>>
  /\ today # date_parsed

\* the token "MM.DD" or "MM/DD" of month m and day d
MonthDay(m, d, sep) ==
  <<DigitChar(m \div 10), DigitChar(m % 10), sep,
    DigitChar(d \div 10), DigitChar(d % 10)>>

\* C15: for every token "MM.DD" or "MM/DD" of a day of today's year,
\* "02.29" in a leap year included, normalize_date returns the date
\* (today.year, MM, DD).
C15_MonthDayInTodaysYear ==
  pc = "returned" =>
    \A m \in 1..12, d \in 1..31 :
      (ValidDate(today[1], m, d)
         /\ TokenOf(date_text) \in {MonthDay(m, d, "."), MonthDay(m, d, "/")})
        => date_parsed = <<today[1], m, d>>

\* the requests of the current keyword are those for pages 1, 2, ..., k in
\* this order, k <= max_page, and a request is sent only when the outcome of
\* the one before has been handled
C16_Sequential ==
  /\ Len(requests) <= max_page
  /\ \A i \in 1..Len(requests) : requests[i] = i
  /\ pc = "get" => (Len(requests) = page /\ res.page = page - 1)
  /\ (pc \in {"page_loop", "return"} /\ brand_idx > 0) =>
       res.page = Len(requests)

\* the crawl of a keyword is under way
Crawling == pc \in {"page_loop", "get", "return"}

\* the number of steps the crawl of the keyword can take at most
StepsLeft ==
  CASE pc = "page_loop" -> 2 * (max_page - page) + 3
    [] pc = "get" -> 2 * (max_page - page) + 2
    [] pc = "return" -> 1
    [] OTHER -> 0

\* while the crawl of a keyword is under way a step can be taken
C16_CanStep ==
  /\ pc = "page_loop" => ENABLED PageRequest
  /\ pc = "get" => ENABLED (ReadTimeout \/ NoRows \/ RowsPage)
  /\ pc = "return" => ENABLED Return

\* every step of the crawl of a keyword leaves fewer steps to take, and the
\* requests stay sequential
C16_Step ==
  /\ Crawling => (StepsLeft' < StepsLeft /\ StepsLeft' >= 0)
  /\ C16_Sequential'
  /\ C16_CanStep'

\* C16: for every keyword, window and sequence of page outcomes the crawl of
\* the keyword ends after at most max_page requests: it can always take a
\* step and each step leaves fewer to take; the pages requested are 1, 2,
\* ..., k in this order, none twice, one at a time.
C16_Terminates == [][C16_Step]_vars

\* with an inverted window, the crawl of a keyword has ended after max_page
\* requests of which the first failed
C16_Witness ==
  /\ pc = "fetch_counts"
  /\ DateLT(end_date, start_date)
  /\ max_page > 1
  /\ Len(requests) = max_page
  /\ failed > 0

\* C17: on a FatalFailure (a 200 page without listing rows), when a
\* progress_cb is supplied, the failure is passed to it before the page loop
\* is left.
C17_FatalReported ==
  (pc = "return" /\ FatalFailure(res) /\ progress_cb) =>
    \E i \in 1..Len(effects) :
      effects[i].op = "progress_cb" /\ effects[i].msg.fmt = "no rows"

\* the page loop is left only on a page without rows, on a page with a row
\* dated before start_date, or after page max_page
C19_EndsOnly ==
  (pc = "get" /\ pc' = "return") =>
    \/ FatalFailure(res')
    \/ HasRowBeforeStart(res')
    \/ page = max_page

\* after a page before max_page that has rows, none dated before
\* start_date, the crawler sleeps 0.5 s and goes on with the next page
C19_GoesOn ==
  (pc = "get" /\ Success(res') /\ ~HasRowBeforeStart(res')
     /\ page < max_page) =>
    /\ effects' = <<Sleep(500)>>
    /\ pc' = "page_loop"
    /\ page' = page + 1
    /\ requests' = requests

\* the request that follows such a page p is the request for page p + 1
C19_NextRequest ==
  (pc = "page_loop" /\ Success(res)) =>
    /\ pc' = "get"
    /\ requests' = Append(requests, res.page + 1)

\* C19: pagination for a keyword ends only on a FatalFailure, on a Success
\* page with a date before start_date, or after page max_page; after a
\* Success page p < max_page without a date before start_date (its rows all
\* after end_date, or without a date that is recognised) the crawler pauses
\* for the inter-page delay and requests page p + 1.
C19_EndsForThreeReasons ==
  [][C19_EndsOnly /\ C19_GoesOn /\ C19_NextRequest]_vars

\* page 2 has been requested after a page whose rows are all dated after
\* end_date
C19_Witness ==
  /\ pc = "get"
  /\ Success(res)
  /\ res.oldest # None
  /\ DateLT(end_date, res.oldest)
  /\ requests[Len(requests)] = res.page + 1

====
